---- MODULE Spec2Model ----
(***************************************************************************)
(* Quoting and risk engine of ak47_backpack_market_maker                   *)
(* (src/V2_market_maker.py with the venue adapter                          *)
(* src/exchanges/backpack_client.py).                                      *)
(*                                                                         *)
(* Numbers are fixed point.  The units:                                    *)
(*   time      0.1 s        (update_interval 0.1 s = 1, sync interval = 10) *)
(*   price     pu = 5e-6 USD (100 USD = 20000000 pu)                        *)
(*   spread    u  = 1e-4 USD = 20 pu, so that half a spread and the tier    *)
(*             factors 0.5, 0.9, 1.3, 1.8 of it are whole numbers of pu     *)
(*   quantity  0.01 coin                                                    *)
(*   vol       0.01 (sigma 0.30 = 30)                                       *)
(*   tenths    the regime multipliers (1.4 = 14)                            *)
(* An optional float (None or a number) is <<>> or <<n>>.                   *)
(***************************************************************************)
EXTENDS Integers, Sequences, FiniteSets, TLC

VARIABLES
    now,                \* time.time(), the wall clock
    pc,                 \* position of run()/step() within the tick
    \* RiskParameters
    Q_max, risk_threshold, base_order_size_usd,
    reinit_q_max,       \* local flag of run()
    \* ProfessionalMarketMaker
    q, real_q, t, market_regime, realized_vol, current_spread, liquidity_ratio,
    dynamic_spread_multiplier, dynamic_order_multiplier, dynamic_gamma,
    dynamic_Q_max, mid_price, price_log, last_position_sync,
    \* OrderManager
    active_orders,      \* order_id -> side
    last_order_update,
    \* locals of run()/step() that live across the stages of a tick
    s, order_book, bid_price, ask_price, size_sol,
    spread,             \* local of generate_intelligent_quotes
    \* TradingConfig and BackpackClient
    config,             \* what the command line and config.py resolved to
    markets,            \* what get_markets() of the venue returns
    tick_size, min_quantity,
    \* the venue
    venue_orders,       \* limit orders resting on the venue: id -> side
    next_id,            \* next order id the venue hands out
    \* observation
    calls,              \* venue requests issued so far in this tick, in order
    ret,                \* what the last call of a stage returned
    applied             \* arguments of the applications of a function on its own

vars == <<now, pc, Q_max, risk_threshold, base_order_size_usd, reinit_q_max,
          q, real_q, t, market_regime, realized_vol, current_spread,
          liquidity_ratio, dynamic_spread_multiplier, dynamic_order_multiplier,
          dynamic_gamma, dynamic_Q_max, mid_price, price_log,
          last_position_sync, active_orders, last_order_update,
          s, order_book, bid_price, ask_price, size_sol, spread,
          config, markets, tick_size, min_quantity,
          venue_orders, next_id, calls, ret, applied>>

-----------------------------------------------------------------------------
(* Bounds of the model *)

StartTime == 20         \* the clock at construction (any value >= both intervals)
MaxTime == 30           \* the clock stops advancing here
MaxTicks == 11          \* mid-prices appended to price_log
MaxOrders == 3          \* limit orders the venue accepts in a run

(* Program constants *)

update_interval == 1            \* 0.1 s
position_sync_interval == 10    \* 1 s
SleepT == 10                    \* t = 1.0 in run(): the sleep and the dt of step
HorizonT == 10                  \* self.T = 1.0
MinHistory == 10                \* len(price_log) < 10

None == <<>>
Some(x) == <<x>>
Val(o) == o[1]
\* Python truthiness of an Optional[float]: None and 0.0 are falsy
Truthy(o) == o # None /\ Val(o) # 0

Abs(x) == IF x < 0 THEN -x ELSE x
Min(a, b) == IF a < b THEN a ELSE b
Max(a, b) == IF a > b THEN a ELSE b
\* floor(a * n / d) without forming a * n
MulDiv(a, n, d) == (a \div d) * n + ((a % d) * n) \div d

-----------------------------------------------------------------------------
(* The venue: what the adapter's calls can return *)

\* get_markets(): the instrument and its filters (tickSize 0.01 USD, minQuantity 0.05)
VenueMarket == [symbol |-> "ETH_USDC_PERP", marketType |-> "PERP",
                baseSymbol |-> "ETH", quoteSymbol |-> "USDC",
                tickSize |-> 2000, minQuantity |-> 5]
\* the spot market of the same coin, which a PERP configuration does not match
SpotMarket == [VenueMarket EXCEPT !.symbol = "ETH_USDC", !.marketType = "SPOT"]
\* the instrument listed without a price filter: tickSize defaults to 0
ZeroTickMarket == [VenueMarket EXCEPT !.tickSize = 0]
\* the instrument with a price filter of 0.05 USD
CoarseTickMarket == [VenueMarket EXCEPT !.tickSize = 10000]
\* what get_markets() can return
MarketListings == {<<SpotMarket, VenueMarket>>, <<SpotMarket>>,
                   <<SpotMarket, ZeroTickMarket>>}

\* the TradingConfig of __main__: defaults of config.py or the command line
GoodConfig == [ticker |-> "ETH", market_type |-> "PERP",
               public_key |-> "key", secret_key |-> "secret"]
Configs == {GoodConfig,
            [GoodConfig EXCEPT !.public_key = ""],
            [GoodConfig EXCEPT !.secret_key = ""],
            [GoodConfig EXCEPT !.ticker = ""]}

\* get_depth(): levels <<price, size>>, both sides ascending in price, so the
\* best bid is the last bid and the best ask the first ask
DepthDeep == [bids |-> << <<19950000, 4>>, <<19960000, 3>>, <<19970000, 2>>,
                          <<19980000, 2>>, <<19990000, 1>> >>,
              asks |-> << <<20010000, 1>>, <<20020000, 2>>, <<20030000, 2>>,
                          <<20040000, 3>>, <<20050000, 4>> >>]
DepthThin == [bids |-> << <<19980000, 6>> >>,
              asks |-> << <<20020000, 3>> >>]
DepthNoAsks == [bids |-> << <<19990000, 1>> >>, asks |-> <<>>]
DepthNoBids == [bids |-> <<>>, asks |-> << <<20010000, 1>> >>]
Depths == {DepthDeep, DepthThin, DepthNoAsks, DepthNoBids}

\* get_open_positions(): netQuantity of the instrument
Positions == {-1000, 500, 800, 1000, 1200, 2000, 2600}

\* np.std(returns) * sqrt(252 * 86400) of the last ten mid-prices: a function of
\* the venue's prices, taken as an input of the classification
CurrentVols == {0, 30, 150, 300}

\* the wall clock between two ticks (a sleep of 1 s on the loop's clock; the
\* wall clock is not monotonic with it)
Advances == {0, 10}

Regimes == {"normal", "high_volatility", "low_volatility", "stress"}

\* the last n and the first n elements of a list: xs[-n:] and xs[:n]
LastN(xs, n) == IF Len(xs) <= n THEN xs ELSE SubSeq(xs, Len(xs) - n + 1, Len(xs))
FirstN(xs, n) == IF Len(xs) <= n THEN xs ELSE SubSeq(xs, 1, n)

RECURSIVE SumSizes(_)
SumSizes(levels) ==
    IF levels = <<>> THEN 0 ELSE levels[1][2] + SumSizes(Tail(levels))

RECURSIVE MaxPrice(_)
MaxPrice(levels) ==
    IF Len(levels) = 1 THEN levels[1][1]
    ELSE Max(levels[1][1], MaxPrice(Tail(levels)))

RECURSIVE MinPrice(_)
MinPrice(levels) ==
    IF Len(levels) = 1 THEN levels[1][1]
    ELSE Min(levels[1][1], MinPrice(Tail(levels)))

-----------------------------------------------------------------------------
(* BackpackClient: rounding at the boundary *)

\* the powers of ten from 0.00001 to 1 USD, in price units
PowersOfTen == {2, 20, 200, 2000, 20000, 200000}

\* 10 ** exponent of Decimal(tickSize): the unit of the last decimal place of
\* the tick as the venue writes it ("0.01" -> 0.01, "0.05" -> 0.01, "0" -> 1)
DecimalQuantum(tick) ==
    CHOOSE p \in PowersOfTen :
        /\ tick % p = 0
        /\ \A r \in PowersOfTen : tick % r = 0 => r <= p

\* Decimal.quantize(tick, ROUND_HALF_UP): the price with the exponent of tick,
\* that is, to the nearest multiple of DecimalQuantum(tick), ties away from 0
round_to_tick(price, tick) ==
    LET quantum == DecimalQuantum(tick)
    IN  IF price >= 0 THEN ((2 * price + quantum) \div (2 * quantum)) * quantum
        ELSE -(((2 * (-price) + quantum) \div (2 * quantum)) * quantum)

\* (quantity / min_quantity).to_integral_value(ROUND_DOWN) * min_quantity: toward 0
align_floor(quantity, min_qty) ==
    IF quantity >= 0 THEN (quantity \div min_qty) * min_qty
    ELSE -(((-quantity) \div min_qty) * min_qty)

\* BackpackClient.__init__: raises ValueError unless both keys are set
ClientCreated(cfg) == cfg.public_key # "" /\ cfg.secret_key # ""

\* the condition of the loop over the markets
MarketMatches(market, cfg) ==
    /\ market.marketType = cfg.market_type
    /\ market.baseSymbol = cfg.ticker
    /\ market.quoteSymbol = "USDC"

\* a tick size of 0 is passed on to the caller
update_contract_attributes_defaulting(cfg, listing) ==
    LET matching == {i \in 1..Len(listing) : MarketMatches(listing[i], cfg)}
        first == CHOOSE i \in matching : \A j \in matching : i <= j
    IN  IF cfg.ticker = "" \/ matching = {}
        THEN [raised |-> TRUE, tick_size |-> 0, min_quantity |-> 0]
        ELSE [raised |-> FALSE, tick_size |-> listing[first].tickSize,
              min_quantity |-> listing[first].minQuantity]

\* update_contract_attributes: the attributes of the first matching market, or
\* the ValueError of an empty ticker, of no contract id, of a tick size of 0
update_contract_attributes(cfg, listing) ==
    LET matching == {i \in 1..Len(listing) : MarketMatches(listing[i], cfg)}
        first == CHOOSE i \in matching : \A j \in matching : i <= j
        contract_id == IF matching = {} THEN "" ELSE listing[first].symbol
        tick == IF matching = {} THEN 0 ELSE listing[first].tickSize
        min_qty == IF matching = {} THEN 0 ELSE listing[first].minQuantity
    IN  IF cfg.ticker = "" THEN [raised |-> TRUE, tick_size |-> 0, min_quantity |-> 0]
        ELSE IF contract_id = "" \/ tick = 0
        THEN [raised |-> TRUE, tick_size |-> tick, min_quantity |-> min_qty]
        ELSE [raised |-> FALSE, tick_size |-> tick, min_quantity |-> min_qty]

-----------------------------------------------------------------------------
(* RegimeClassifier: the multiplier table, in tenths *)

\* the table with a ceiling of 0.4 Q_max under stress
MultipliersTightStress(regime) ==
    IF regime = "normal"
    THEN [gamma |-> 10, Q_max |-> 20, order_size |-> 10, spread |-> 10]
    ELSE IF regime = "high_volatility"
    THEN [gamma |-> 14, Q_max |-> 12, order_size |-> 5, spread |-> 18]
    ELSE IF regime = "low_volatility"
    THEN [gamma |-> 7, Q_max |-> 26, order_size |-> 14, spread |-> 7]
    ELSE [gamma |-> 20, Q_max |-> 4, order_size |-> 3, spread |-> 25]

Multipliers(regime) ==
    CASE regime = "normal" ->
            [gamma |-> 10, Q_max |-> 20, order_size |-> 10, spread |-> 10]
      [] regime = "high_volatility" ->
            [gamma |-> 14, Q_max |-> 12, order_size |-> 5, spread |-> 18]
      [] regime = "low_volatility" ->
            [gamma |-> 7, Q_max |-> 26, order_size |-> 14, spread |-> 7]
      [] regime = "stress" ->
            [gamma |-> 20, Q_max |-> 8, order_size |-> 3, spread |-> 25]

\* RiskParameters defaults that the run never changes (units in the header)
Gamma == 100            \* gamma 0.10, in 0.001
Sigma == 30             \* sigma 0.30, in 0.01
RebateDen == 10000      \* rebate_rate = 1 / 10000

-----------------------------------------------------------------------------
(* QuoteEngine *)

\* the ratio taken of the signed position
RatioAtLeastSigned(n) == 10 * q >= n * dynamic_Q_max

\* |q| / dynamic_Q_max >= n / 10
RatioAtLeast(n) == 10 * Abs(q) >= n * dynamic_Q_max

\* calculate_competitive_spread: the risk spread, in u.  The competitor spread
\* it reads from the book afterwards is only logged.
calculate_competitive_spread(mid, book) ==
    LET time_left == Max(1, (HorizonT - t) * 100)                \* in 0.001
        vol_component ==
            MulDiv(dynamic_gamma * realized_vol * realized_vol, time_left, 1000000)
        inventory_pressure == (3 * Abs(q) * current_spread) \div (10 * dynamic_Q_max)
        market_spread == (current_spread * dynamic_spread_multiplier) \div 10
    IN  vol_component + inventory_pressure + market_spread

\* a price of the book that float() rejects (ValueError, TypeError)
Unparsable == -1

\* generate_intelligent_quotes for a spread sp: <<bid_price, ask_price>>, each
\* optional, in pu.  half_spread is 10 * sp pu; the factors 0.5, 0.9, 1.3, 1.8
\* of it are 5, 9, 13 and 18 times sp.  Every exception ends in (None, None):
\* the division by a dynamic_Q_max of 0, the best price of an empty side, a
\* best price that does not parse.  No other level of the book is read.
QuotesWithSpread(mid, sp, book) ==
    IF dynamic_Q_max = 0 THEN <<None, None>>                         \* ZeroDivisionError
    ELSE IF ~book.has_bids \/ ~book.has_asks THEN <<None, None>>
    ELSE IF book.bids = <<>> \/ book.asks = <<>> THEN <<None, None>>  \* IndexError
    ELSE
    LET min_ask == book.asks[1][1]
        max_bid == book.bids[Len(book.bids)][1]
    IN  IF min_ask = Unparsable \/ max_bid = Unparsable THEN <<None, None>>
        ELSE IF RatioAtLeast(9) THEN
            IF q > 0 THEN <<None, Some(max_bid + max_bid \div RebateDen)>>
            ELSE <<Some(min_ask - min_ask \div RebateDen), None>>
        ELSE IF RatioAtLeast(7) THEN
            IF q > 0 THEN <<Some(mid - 18 * sp), Some(mid + 5 * sp)>>
            ELSE <<Some(mid - 5 * sp), Some(mid + 18 * sp)>>
        ELSE IF RatioAtLeast(4) THEN
            IF q > 0 THEN <<Some(mid - 13 * sp), Some(mid + 9 * sp)>>
            ELSE <<Some(mid - 9 * sp), Some(mid + 13 * sp)>>
        ELSE <<Some(mid - 10 * sp), Some(mid + 10 * sp)>>

\* a price that does not parse taken as 0 instead of raising
generate_quotes_defaulting(mid, book) ==
    LET parsed(levels) ==
            [i \in 1..Len(levels) |->
                IF levels[i][1] = Unparsable THEN <<0, levels[i][2]>> ELSE levels[i]]
    IN  QuotesWithSpread(mid, calculate_competitive_spread(mid, book),
                         [book EXCEPT !.bids = parsed(book.bids),
                                      !.asks = parsed(book.asks)])

\* the spread halved twice: the quotes a quarter of the spread from the mid-price
generate_quotes_of_half_spread(mid, book) ==
    QuotesWithSpread(mid, calculate_competitive_spread(mid, book) \div 2, book)

\* generate_intelligent_quotes: the spread is calculate_competitive_spread's
generate_intelligent_quotes(mid, book) ==
    QuotesWithSpread(mid, calculate_competitive_spread(mid, book), book)

\* calculate_dynamic_order_size: the notional of an order, in 0.01 USD
calculate_dynamic_order_size(mid) ==
    LET base_size_usd == (base_order_size_usd * 100 * dynamic_order_multiplier) \div 10
        penalised == MulDiv(base_size_usd, 10 * dynamic_Q_max - 4 * Abs(q),
                            10 * dynamic_Q_max)
        vol_adjusted == MulDiv(penalised, 2 * Sigma, Sigma + realized_vol)
        liquidity_adjustment == Min(150, Max(30, liquidity_ratio))
    IN  MulDiv(vol_adjusted, liquidity_adjustment, 100)

\* the size as computed, with no floor at the venue's minimum
SizeSolOfNotional(mid) ==
    (calculate_dynamic_order_size(mid) * 2000) \div (mid \div 100)

\* step: size_sol = max(order_size_usd / s, float(self.min_quantity)), in 0.01 coin
SizeSol(mid) ==
    Max((calculate_dynamic_order_size(mid) * 2000) \div (mid \div 100), min_quantity)

-----------------------------------------------------------------------------
(* PriceSanitizer *)

\* the band alone: no side of the mid-price enforced, no repair of the order
validate_band_only(bid, ask, mid) ==
    LET min_valid_price == MulDiv(mid, 8, 10)
        max_valid_price == MulDiv(mid, 12, 10)
        clamp(p) == Some(Min(max_valid_price, Max(min_valid_price, Val(p))))
    IN  <<IF bid = None THEN None ELSE clamp(bid),
          IF ask = None THEN None ELSE clamp(ask)>>

\* a bid at or above the mid-price shaved by 0.1% of itself, not set to 0.999 s
validate_shaving_bid(bid, ask, mid) ==
    LET min_valid_price == MulDiv(mid, 8, 10)
        max_valid_price == MulDiv(mid, 12, 10)
        bid1 == IF bid = None THEN None
                ELSE IF Val(bid) >= mid THEN Some(MulDiv(Val(bid), 999, 1000))
                ELSE IF Val(bid) < min_valid_price THEN Some(min_valid_price)
                ELSE bid
        ask1 == IF ask = None THEN None
                ELSE IF Val(ask) <= mid THEN Some(MulDiv(mid, 1001, 1000))
                ELSE IF Val(ask) > max_valid_price THEN Some(max_valid_price)
                ELSE ask
        ask2 == IF Truthy(bid1) /\ Truthy(ask1) /\ Val(ask1) <= Val(bid1)
                THEN Some(Max(Val(ask1), Val(bid1) + MulDiv(mid, 1, 1000)))
                ELSE ask1
    IN  <<bid1, ask2>>

\* a price outside the band dropped, not moved to the edge of the band
validate_dropping_outliers(bid, ask, mid) ==
    LET min_valid_price == MulDiv(mid, 8, 10)
        max_valid_price == MulDiv(mid, 12, 10)
        bid1 == IF bid = None THEN None
                ELSE IF Val(bid) >= mid THEN Some(MulDiv(mid, 999, 1000))
                ELSE IF Val(bid) < min_valid_price THEN None
                ELSE bid
        ask1 == IF ask = None THEN None
                ELSE IF Val(ask) <= mid THEN Some(MulDiv(mid, 1001, 1000))
                ELSE IF Val(ask) > max_valid_price THEN None
                ELSE ask
    IN  <<bid1, ask1>>

validate_and_adjust_prices(bid, ask, mid) ==
    LET min_valid_price == MulDiv(mid, 8, 10)
        max_valid_price == MulDiv(mid, 12, 10)
        bid1 == IF bid = None THEN None
                ELSE IF Val(bid) >= mid THEN Some(MulDiv(mid, 999, 1000))
                ELSE IF Val(bid) < min_valid_price THEN Some(min_valid_price)
                ELSE bid
        ask1 == IF ask = None THEN None
                ELSE IF Val(ask) <= mid THEN Some(MulDiv(mid, 1001, 1000))
                ELSE IF Val(ask) > max_valid_price THEN Some(max_valid_price)
                ELSE ask
        ask2 == IF Truthy(bid1) /\ Truthy(ask1) /\ Val(ask1) <= Val(bid1)
                THEN Some(Max(Val(ask1), Val(bid1) + MulDiv(mid, 1, 1000)))
                ELSE ask1
    IN  <<bid1, ask2>>

-----------------------------------------------------------------------------
(* HedgeController *)

\* the excess measured against the base Q_max, not the regime's ceiling
HedgeRatioBaseCeiling ==
    LET d == Q_max - risk_threshold
        e == Abs(real_q) - risk_threshold
        num == IF d > 0 THEN 3 * d + 7 * e ELSE -(3 * d + 7 * e)
        den == IF d > 0 THEN 10 * d ELSE -(10 * d)
    IN  IF num >= den THEN <<1, 1>> ELSE <<num, den>>

\* the ratio without its cap of 1.0
HedgeRatioUncapped ==
    LET d == dynamic_Q_max - risk_threshold
        e == Abs(real_q) - risk_threshold
        num == IF d > 0 THEN 3 * d + 7 * e ELSE -(3 * d + 7 * e)
        den == IF d > 0 THEN 10 * d ELSE -(10 * d)
    IN  <<num, den>>

\* execute_real_hedge: hedge_ratio = min(1.0, 0.3 + 0.7 * excess_ratio) as a
\* fraction <<numerator, denominator>> with a positive denominator, where
\* excess_ratio = (|real_q| - risk_threshold) / (dynamic_Q_max - risk_threshold).
\* Asked only where the denominator of excess_ratio is not 0.
HedgeRatio ==
    LET d == dynamic_Q_max - risk_threshold
        e == Abs(real_q) - risk_threshold
        num == IF d > 0 THEN 3 * d + 7 * e ELSE -(3 * d + 7 * e)
        den == IF d > 0 THEN 10 * d ELSE -(10 * d)
    IN  IF num >= den THEN <<1, 1>> ELSE <<num, den>>

\* the ratio applied to the excess over the threshold, not to the position
HedgeSizeOfExcess ==
    MulDiv(Abs(real_q) - risk_threshold, HedgeRatio[1], HedgeRatio[2])

\* hedge_size_sol = abs(real_q) * hedge_ratio, in 0.01 coin
HedgeSize == MulDiv(Abs(real_q), HedgeRatio[1], HedgeRatio[2])

-----------------------------------------------------------------------------
(* The state after construction (RiskParameters from config/config.py) *)

NoOrders == [id \in {} |-> 0]
NoBook == [has_bids |-> FALSE, has_asks |-> FALSE, bids |-> <<>>, asks |-> <<>>]

\* one request to the venue, as the log keeps it
Call(op, side, price, qty, id, ok) ==
    [op |-> op, side |-> side, price |-> price, qty |-> qty, id |-> id, ok |-> ok]

Init ==
    /\ now = StartTime
    /\ pc = "start"
    /\ Q_max = 100
    /\ risk_threshold = 50
    /\ base_order_size_usd = 100
    /\ reinit_q_max = FALSE
    /\ q = 0
    /\ real_q = 0
    /\ t = 0
    /\ market_regime = "normal"
    /\ realized_vol = Sigma
    /\ current_spread = 100
    /\ liquidity_ratio = 100
    /\ dynamic_spread_multiplier = 20
    /\ dynamic_order_multiplier = 10
    /\ dynamic_gamma = Gamma
    /\ dynamic_Q_max = 100
    /\ mid_price = 0
    /\ price_log = <<>>
    /\ last_position_sync = 0
    /\ active_orders = NoOrders
    /\ last_order_update = 0
    /\ s = 0
    /\ order_book = NoBook
    /\ bid_price = None
    /\ ask_price = None
    /\ size_sol = 0
    /\ spread = 0
    /\ config \in Configs
    /\ markets \in MarketListings
    /\ tick_size = 0
    /\ min_quantity = 0
    /\ venue_orders = NoOrders
    /\ next_id = 1
    /\ calls = <<>>
    /\ ret = "none"
    /\ applied = <<>>

risk_vars == <<Q_max, risk_threshold, base_order_size_usd, reinit_q_max>>
position_vars == <<q, real_q, last_position_sync>>
regime_vars == <<market_regime, realized_vol, liquidity_ratio,
                 dynamic_spread_multiplier, dynamic_order_multiplier>>
order_vars == <<active_orders, last_order_update, venue_orders, next_id>>
tick_vars == <<s, order_book>>
quote_vars == <<bid_price, ask_price, size_sol, spread>>
client_vars == <<config, markets, tick_size, min_quantity, applied>>

-----------------------------------------------------------------------------
(* run(): start-up and the head of the loop *)

\* the client was created and update_contract_attributes() found the market;
\* update_contract_id
Startup ==
    /\ pc = "start"
    /\ ClientCreated(config)
    /\ ~update_contract_attributes(config, markets).raised
    /\ tick_size' = update_contract_attributes(config, markets).tick_size
    /\ min_quantity' = update_contract_attributes(config, markets).min_quantity
    /\ pc' = "fetch"
    /\ UNCHANGED <<now, risk_vars, position_vars, regime_vars, order_vars,
                   tick_vars, quote_vars, t, current_spread, dynamic_gamma,
                   dynamic_Q_max, mid_price, price_log, calls, ret, applied,
                   config, markets>>

\* the constructor of the client or update_contract_attributes() raised
\* ValueError: it leaves the constructor, or run() before its loop
StartupFatal ==
    /\ pc = "start"
    /\ ~ClientCreated(config) \/ update_contract_attributes(config, markets).raised
    /\ pc' = "fatal"
    /\ ret' = "ValueError"
    /\ UNCHANGED <<now, risk_vars, position_vars, regime_vars, order_vars,
                   tick_vars, quote_vars, client_vars, t, current_spread,
                   dynamic_gamma, dynamic_Q_max, mid_price, price_log, calls>>

\* what the head of the loop leaves alone whenever no tick starts
NoTick ==
    UNCHANGED <<now, risk_vars, position_vars, regime_vars, order_vars,
                tick_vars, quote_vars, client_vars, t, current_spread,
                dynamic_gamma, dynamic_Q_max, mid_price, price_log, calls, ret>>

\* the exception of the fetch leaves run(): the loop is over
FetchErrorEndsRun ==
    /\ pc = "fetch"
    /\ pc' = "ended"
    /\ NoTick

\* get_latest_bids_asks raised (or returned no dict): logged, sleep(1.0), next turn
FetchError ==
    /\ pc = "fetch"
    /\ pc' = "sleep"
    /\ NoTick

\* a side of the book is empty: the tick is skipped, sleep(t), next turn
FetchIncomplete ==
    /\ pc = "fetch"
    /\ \E depth \in Depths : depth.bids = <<>> \/ depth.asks = <<>>
    /\ pc' = "sleep"
    /\ NoTick

\* asyncio.sleep at the end of a turn of the loop; the locals of the turn are
\* gone when the next one begins
Sleep ==
    /\ pc = "sleep"
    /\ \E d \in Advances : now + d <= MaxTime /\ now' = now + d
    /\ pc' = "fetch"
    /\ s' = 0
    /\ order_book' = NoBook
    /\ bid_price' = None /\ ask_price' = None /\ size_sol' = 0 /\ spread' = 0
    /\ calls' = <<>>
    /\ ret' = "none"
    /\ UNCHANGED <<risk_vars, position_vars, regime_vars, order_vars, client_vars,
                   t, current_spread, dynamic_gamma, dynamic_Q_max, mid_price,
                   price_log>>

\* the factor 5 left out
DeriveRiskThresholdOfOneOrder(base, mid) == (base * 200000) \div (mid \div 100)

\* risk_threshold = base_order_size_usd * 5 / s, in 0.01 coin
DeriveRiskThreshold(base, mid) == (base * 1000000) \div (mid \div 100)

\* a full book: mid-price, spread, the one-time re-derivation, the price log;
\* then step() begins
FetchDepth ==
    /\ pc = "fetch"
    /\ Len(price_log) < MaxTicks
    /\ \E depth \in Depths :
        /\ depth.bids # <<>> /\ depth.asks # <<>>
        /\ LET bids == LastN(depth.bids, 5)
               asks == FirstN(depth.asks, 5)
               min_ask == MinPrice(asks)
               max_bid == MaxPrice(bids)
               mid == (max_bid + min_ask) \div 2
               base == IF base_order_size_usd <= 10 THEN 50
                       ELSE base_order_size_usd
           IN  /\ order_book' = [has_bids |-> TRUE, has_asks |-> TRUE,
                                 bids |-> bids, asks |-> asks]
               /\ s' = mid
               /\ current_spread' = (min_ask - max_bid) \div 20
               /\ IF ~reinit_q_max
                  THEN /\ base_order_size_usd' = base
                       /\ risk_threshold' = DeriveRiskThreshold(base, mid)
                       /\ Q_max' = 2 * DeriveRiskThreshold(base, mid)
                       /\ dynamic_gamma' = Gamma
                       /\ dynamic_Q_max' = 2 * DeriveRiskThreshold(base, mid)
                       /\ reinit_q_max' = TRUE
                  ELSE UNCHANGED <<risk_vars, dynamic_gamma, dynamic_Q_max>>
               /\ price_log' = Append(price_log, mid)
    /\ pc' = "sync"
    /\ UNCHANGED <<now, position_vars, regime_vars, order_vars, quote_vars,
                   client_vars, t, mid_price, calls, ret>>

-----------------------------------------------------------------------------
(* step(): position sync *)

\* what sync_real_position leaves alone
SyncFrame ==
    UNCHANGED <<now, risk_vars, regime_vars, order_vars, tick_vars, quote_vars,
                client_vars, t, current_spread, dynamic_gamma, dynamic_Q_max,
                price_log>>

\* the interval not awaited: the venue is asked for the position all the same
SyncSkippedQuerying ==
    /\ pc = "sync"
    /\ now - last_position_sync < position_sync_interval
    /\ \E position \in Positions :
        /\ real_q' = position
        /\ q' = position
    /\ last_position_sync' = now
    /\ calls' = Append(calls, Call("get_open_positions", "", 0, 0, 0, TRUE))
    /\ ret' = "True"
    /\ mid_price' = s
    /\ pc' = "classify"
    /\ SyncFrame

\* less than position_sync_interval since the last sync: return True at once
SyncSkipped ==
    /\ pc = "sync"
    /\ now - last_position_sync < position_sync_interval
    /\ ret' = "True"
    /\ mid_price' = s
    /\ pc' = "classify"
    /\ UNCHANGED <<position_vars, calls>>
    /\ SyncFrame

\* get_account_positions() returned the venue's netQuantity
SyncPosition ==
    /\ pc = "sync"
    /\ now - last_position_sync >= position_sync_interval
    /\ \E position \in Positions :
        /\ real_q' = position
        /\ q' = position
    /\ last_position_sync' = now
    /\ calls' = Append(calls, Call("get_open_positions", "", 0, 0, 0, TRUE))
    /\ ret' = "True"
    /\ mid_price' = s
    /\ pc' = "classify"
    /\ SyncFrame

\* get_open_positions() failed on each of the 30 attempts: get_account_positions
\* swallows the exceptions and returns (0, 0), which the sync stores as the
\* position; sync_real_position returns True here as everywhere
SyncAdapterFailure ==
    /\ pc = "sync"
    /\ now - last_position_sync >= position_sync_interval
    /\ real_q' = 0
    /\ q' = 0
    /\ last_position_sync' = now
    /\ calls' = Append(calls, Call("get_open_positions", "", 0, 0, 0, FALSE))
    /\ ret' = "True"
    /\ mid_price' = s
    /\ pc' = "classify"
    /\ SyncFrame

-----------------------------------------------------------------------------
(* step(): regime classification *)

\* 1000 * |ln(x / 100)|, x > 0 in hundredths: a step table of the logarithm
LnMilliAbove(x) ==
    IF x >= 400 THEN 1386 ELSE IF x >= 300 THEN 1099 ELSE IF x >= 200 THEN 693
    ELSE IF x >= 180 THEN 588 ELSE IF x >= 150 THEN 405
    ELSE IF x >= 125 THEN 223 ELSE 0
AbsLnMilli(x) == IF x >= 100 THEN LnMilliAbove(x) ELSE LnMilliAbove(10000 \div x)

\* bid_depth / ask_depth of order_book[...][:3], in hundredths; 1.0 without asks
LiquidityRatio(book) ==
    LET bid_depth == SumSizes(FirstN(book.bids, 3))
        ask_depth == SumSizes(FirstN(book.asks, 3))
    IN  IF ask_depth > 0 THEN (100 * bid_depth) \div ask_depth ELSE 100

\* composite_signal = 0.7 * vol_ratio + 0.3 * pressure, in 0.001
CompositeSignal(vol, liquidity) ==
    LET pressure == IF liquidity > 0 THEN AbsLnMilli(liquidity) \div 2 ELSE 500
    IN  (700 * vol) \div Sigma + (3 * pressure) \div 10

\* a regime of stress is left only below the threshold of high volatility
RegimeOfWithHysteresis(signal) ==
    IF signal > 2000 THEN "stress"
    ELSE IF signal > 1500
    THEN (IF market_regime = "stress" THEN "stress" ELSE "high_volatility")
    ELSE IF signal < 700 THEN "low_volatility"
    ELSE "normal"

\* the chain of comparisons on composite_signal, in 0.001
RegimeOf(signal) ==
    IF signal > 2000 THEN "stress"
    ELSE IF signal > 1500 THEN "high_volatility"
    ELSE IF signal < 700 THEN "low_volatility"
    ELSE "normal"

ClassifyFrame ==
    UNCHANGED <<now, risk_vars, position_vars, order_vars, tick_vars, quote_vars,
                client_vars, t, current_spread, mid_price, price_log, calls>>

\* fewer than 10 mid-prices: the regime falls back to normal
ClassifyInsufficientResetting ==
    /\ pc = "classify"
    /\ Len(price_log) < MinHistory
    /\ ret' = "False"
    /\ pc' = "hedge"
    /\ market_regime' = "normal"
    /\ dynamic_gamma' = Gamma
    /\ dynamic_Q_max' = 2 * Q_max
    /\ dynamic_order_multiplier' = 10
    /\ dynamic_spread_multiplier' = 10
    /\ UNCHANGED <<realized_vol, liquidity_ratio>>
    /\ ClassifyFrame

\* fewer than 10 mid-prices: return False
ClassifyInsufficient ==
    /\ pc = "classify"
    /\ Len(price_log) < MinHistory
    /\ ret' = "False"
    /\ pc' = "hedge"
    /\ UNCHANGED <<regime_vars, dynamic_gamma, dynamic_Q_max>>
    /\ ClassifyFrame

\* the multipliers applied to the dynamic values of the regime before
AdjustParametersCompounding(regime) ==
    LET mult == Multipliers(regime)
    IN  /\ dynamic_gamma' = (dynamic_gamma * mult.gamma) \div 10
        /\ dynamic_Q_max' = (dynamic_Q_max * mult.Q_max) \div 10
        /\ dynamic_order_multiplier' = mult.order_size
        /\ dynamic_spread_multiplier' = mult.spread

\* _adjust_parameters_by_regime, applied when the regime changed
AdjustParametersByRegime(regime) ==
    LET mult == Multipliers(regime)
    IN  /\ dynamic_gamma' = (Gamma * mult.gamma) \div 10
        /\ dynamic_Q_max' = (Q_max * mult.Q_max) \div 10
        /\ dynamic_order_multiplier' = mult.order_size
        /\ dynamic_spread_multiplier' = mult.spread

\* enhanced_market_regime_detection with enough history
Classify ==
    /\ pc = "classify"
    /\ Len(price_log) >= MinHistory
    /\ \E current_vol \in CurrentVols :
        LET vol == (7 * realized_vol + 3 * current_vol) \div 10
            liquidity ==
                IF order_book.has_bids /\ order_book.has_asks
                THEN LiquidityRatio(order_book) ELSE liquidity_ratio
            new_regime == RegimeOf(CompositeSignal(vol, liquidity))
        IN  /\ realized_vol' = vol
            /\ liquidity_ratio' = liquidity
            /\ market_regime' = new_regime
            /\ IF new_regime # market_regime
               THEN AdjustParametersByRegime(new_regime)
               ELSE UNCHANGED <<dynamic_gamma, dynamic_Q_max,
                                dynamic_order_multiplier, dynamic_spread_multiplier>>
    /\ ret' = "True"
    /\ pc' = "hedge"
    /\ ClassifyFrame

-----------------------------------------------------------------------------
(* step(): hedge *)

HedgeFrame ==
    UNCHANGED <<now, risk_vars, position_vars, regime_vars, order_vars, tick_vars,
                quote_vars, client_vars, t, current_spread, dynamic_gamma,
                dynamic_Q_max, mid_price, price_log>>

\* |real_q| <= risk_threshold: nothing to hedge
HedgeSkipped ==
    /\ pc = "hedge"
    /\ Abs(real_q) <= risk_threshold
    /\ ret' = "none"
    /\ pc' = "quote"
    /\ UNCHANGED calls
    /\ HedgeFrame

\* a hedge order the venue refused is sent a second time in the same tick
HedgeOrderRetrying ==
    /\ pc = "hedge"
    /\ Abs(real_q) > risk_threshold
    /\ dynamic_Q_max # risk_threshold
    /\ \E ok \in BOOLEAN, again \in BOOLEAN :
        LET real_position == IF real_q > 0 THEN HedgeSize ELSE -HedgeSize
            side == IF real_position < 0 THEN "Bid" ELSE "Ask"
            quantity == align_floor(Abs(real_position), min_quantity)
        IN  calls' = IF ok
                     THEN Append(calls, Call("market_order", side, 0, quantity, 0, ok))
                     ELSE calls \o <<Call("market_order", side, 0, quantity, 0, ok),
                                     Call("market_order", side, 0, quantity, 0, again)>>
    /\ ret' = "none"
    /\ pc' = "quote"
    /\ HedgeFrame

\* close_position_with_market_order(contract_id, +-hedge_size_sol): one reduce-only
\* market order, 'Bid' for a negative argument and 'Ask' otherwise; it returns
\* the order id or None, and the hedge only logs what it returns
HedgeOrder ==
    /\ pc = "hedge"
    /\ Abs(real_q) > risk_threshold
    /\ dynamic_Q_max # risk_threshold
    /\ \E ok \in BOOLEAN :
        LET real_position == IF real_q > 0 THEN HedgeSize ELSE -HedgeSize
            side == IF real_position < 0 THEN "Bid" ELSE "Ask"
            quantity == align_floor(Abs(real_position), min_quantity)
        IN  calls' = Append(calls, Call("market_order", side, 0, quantity, 0, ok))
    /\ ret' = "none"
    /\ pc' = "quote"
    /\ HedgeFrame

-----------------------------------------------------------------------------
(* step(): quotes *)

\* the quotes made, then the hedge run once more before they are submitted
QuoteThenHedgeAgain ==
    /\ pc = "quote"
    /\ bid_price' = generate_intelligent_quotes(s, order_book)[1]
    /\ ask_price' = generate_intelligent_quotes(s, order_book)[2]
    /\ spread' = calculate_competitive_spread(s, order_book)
    /\ size_sol' = SizeSol(s)
    /\ pc' = "hedge"
    /\ UNCHANGED <<now, risk_vars, position_vars, regime_vars, order_vars,
                   tick_vars, client_vars, t, current_spread, dynamic_gamma,
                   dynamic_Q_max, mid_price, price_log, calls, ret>>

\* generate_intelligent_quotes and the order size; step() hands the pair it
\* gets to the order manager as it is
Quote ==
    /\ pc = "quote"
    /\ bid_price' = generate_intelligent_quotes(s, order_book)[1]
    /\ ask_price' = generate_intelligent_quotes(s, order_book)[2]
    /\ spread' = calculate_competitive_spread(s, order_book)
    /\ size_sol' = SizeSol(s)
    /\ pc' = "submit"
    /\ UNCHANGED <<now, risk_vars, position_vars, regime_vars, order_vars,
                   tick_vars, client_vars, t, current_spread, dynamic_gamma,
                   dynamic_Q_max, mid_price, price_log, calls, ret>>

-----------------------------------------------------------------------------
(* OrderManager.smart_order_update *)

\* the ids of a map, ascending: the order in which the venue lists open orders
RECURSIVE Ascending(_)
Ascending(ids) ==
    IF ids = {} THEN <<>>
    ELSE LET least == CHOOSE i \in ids : \A j \in ids : i <= j
         IN  <<least>> \o Ascending(ids \ {least})

\* get_active_orders: the open orders of the venue, or [] when the request fails
\* (the exception is swallowed) 
get_active_orders(query_ok) ==
    IF query_ok THEN Ascending(DOMAIN venue_orders) ELSE <<>>

\* the throttle with no interval: a call is never too early
ThrottledBelowZero == now - last_order_update < 0

\* the throttle: current_time - last_order_update < update_interval
Throttled == now - last_order_update < update_interval

\* the quantity place_buy_limit_order / place_sell_limit_order send
LimitQuantity(side, size) ==
    IF side = "buy" THEN align_floor(Max(size, min_quantity), min_quantity)
    ELSE align_floor(size, min_quantity)

\* the loop left at the first cancel that fails
CancelAttemptsUntilFailure(current_orders, cancelled) ==
    LET failed == {i \in 1..Len(current_orders) : current_orders[i] \notin cancelled}
    IN  IF failed = {} THEN current_orders
        ELSE SubSeq(current_orders, 1, CHOOSE i \in failed : \A j \in failed : i <= j)

\* the orders the cancel loop sends a cancel for: each one in turn; a cancel
\* that fails (a failure result, or an exception of the await) is only logged
CancelAttempts(current_orders, cancelled) == current_orders

\* the placements sent off before the cancels
RequestsPlacingFirst(query_call, cancel_calls, buy_calls, sell_calls) ==
    <<query_call>> \o buy_calls \o sell_calls \o cancel_calls

\* the requests of an update in the order the code awaits them: the query of
\* the open orders, the loop of cancels, then the buy and the sell
RequestsOfUpdate(query_call, cancel_calls, buy_calls, sell_calls) ==
    <<query_call>> \o cancel_calls \o buy_calls \o sell_calls

\* the time kept only by an update that placed an order
StampOnlyIfPlaced(placed) == IF placed = {} THEN last_order_update ELSE now

\* self.last_order_update = current_time: the time read at the start of the
\* call, stored after the two loops whatever they placed
StampOfUpdate(placed) == now

\* return False, nothing touched
SmartOrderUpdateThrottled(desired_bid, desired_ask, size) ==
    /\ Throttled
    /\ ret' = "False"
    /\ UNCHANGED <<order_vars, calls>>

\* the update: query the open orders, cancel each, place a buy and a sell,
\* record what was placed, stamp the time read at the start, return True.
\* The outcomes of the requests are the venue's: cancelled are the orders whose
\* cancel succeeded, bid_ok / ask_ok say whether the placement returned an id.
\* An entry of active_orders is kept as its side: price, size, desired_price and
\* create_time are copies of the arguments and of current_time that nothing
\* reads again (the log of requests has the price and the size).
SmartOrderUpdatePermitted(desired_bid, desired_ask, size) ==
    /\ ~Throttled
    /\ \E query_ok \in BOOLEAN, cancelled \in SUBSET DOMAIN venue_orders,
          bid_ok \in BOOLEAN, ask_ok \in BOOLEAN :
        LET current_orders == get_active_orders(query_ok)
            nb == IF bid_ok THEN 1 ELSE 0
            na == IF ask_ok THEN 1 ELSE 0
            bid_id == IF bid_ok THEN next_id ELSE 0
            ask_id == IF ask_ok THEN next_id + nb ELSE 0
            attempts == CancelAttempts(current_orders, cancelled)
            cancel_calls ==
                [i \in 1..Len(attempts) |->
                    Call("cancel_order", "", 0, 0, attempts[i],
                         attempts[i] \in cancelled)]
            buy_calls ==
                IF Truthy(desired_bid)
                THEN <<Call("limit_order", "Bid",
                            round_to_tick(Val(desired_bid), tick_size),
                            LimitQuantity("buy", size), bid_id, bid_ok)>>
                ELSE <<>>
            sell_calls ==
                IF Truthy(desired_ask)
                THEN <<Call("limit_order", "Ask",
                            round_to_tick(Val(desired_ask), tick_size),
                            LimitQuantity("sell", size), ask_id, ask_ok)>>
                ELSE <<>>
            placed == {c \in {bid_id, ask_id} : c # 0}
            side_of(id) == IF id = bid_id THEN "buy" ELSE "sell"
            kept == DOMAIN venue_orders \ cancelled
        IN  /\ cancelled \subseteq {current_orders[i] : i \in 1..Len(current_orders)}
            /\ bid_ok => Truthy(desired_bid)
            /\ ask_ok => Truthy(desired_ask)
            /\ next_id + nb + na - 1 <= MaxOrders
            /\ calls' = calls \o
                    RequestsOfUpdate(Call("get_open_orders", "", 0, 0, 0, query_ok),
                                     cancel_calls, buy_calls, sell_calls)
            /\ active_orders' =
                [id \in DOMAIN active_orders \cup placed |->
                    IF id \in placed THEN side_of(id) ELSE active_orders[id]]
            /\ venue_orders' =
                [id \in kept \cup placed |->
                    IF id \in placed THEN side_of(id) ELSE venue_orders[id]]
            /\ next_id' = next_id + nb + na
            /\ last_order_update' = StampOfUpdate(placed)
            /\ ret' = "True"

-----------------------------------------------------------------------------
(* step(): order management and the end of the tick *)

\* self.t += dt, then run() sleeps
EndOfStep ==
    /\ t' = t + SleepT
    /\ pc' = "sleep"
    /\ UNCHANGED <<now, risk_vars, position_vars, regime_vars, tick_vars,
                   quote_vars, client_vars, current_spread, dynamic_gamma,
                   dynamic_Q_max, mid_price, price_log>>

SubmitThrottled ==
    /\ pc = "submit"
    /\ Truthy(bid_price) \/ Truthy(ask_price)
    /\ SmartOrderUpdateThrottled(bid_price, ask_price, size_sol)
    /\ EndOfStep

SubmitUpdate ==
    /\ pc = "submit"
    /\ Truthy(bid_price) \/ Truthy(ask_price)
    /\ SmartOrderUpdatePermitted(bid_price, ask_price, size_sol)
    /\ EndOfStep

\* neither price, and the order manager called all the same: it cancels what
\* rests and places nothing
SubmitNoQuotesCancelling ==
    /\ pc = "submit"
    /\ ~(Truthy(bid_price) \/ Truthy(ask_price))
    /\ SmartOrderUpdatePermitted(bid_price, ask_price, size_sol)
    /\ EndOfStep

\* neither price: smart_order_update is not called
SubmitNoQuotes ==
    /\ pc = "submit"
    /\ ~(Truthy(bid_price) \/ Truthy(ask_price))
    /\ UNCHANGED <<order_vars, calls, ret>>
    /\ EndOfStep

-----------------------------------------------------------------------------
(* The venue fills a resting order between two ticks *)

VenueFill ==
    /\ pc = "fetch"
    /\ \E id \in DOMAIN venue_orders :
        venue_orders' = [i \in DOMAIN venue_orders \ {id} |-> venue_orders[i]]
    /\ UNCHANGED <<now, pc, risk_vars, position_vars, regime_vars, active_orders,
                   last_order_update, next_id, tick_vars, quote_vars, client_vars,
                   t, current_spread, dynamic_gamma, dynamic_Q_max, mid_price,
                   price_log, calls, ret>>

-----------------------------------------------------------------------------
(* The engine.  In a run every book that reaches step() has both sides, so  *)
(* SubmitNoQuotes never fires and is no step of it.                         *)

Next ==
    \/ Startup
    \/ StartupFatal
    \/ FetchError
    \/ FetchIncomplete
    \/ FetchDepth
    \/ Sleep
    \/ SyncSkipped
    \/ SyncPosition
    \/ SyncAdapterFailure
    \/ ClassifyInsufficient
    \/ Classify
    \/ HedgeSkipped
    \/ HedgeOrder
    \/ Quote
    \/ SubmitThrottled
    \/ SubmitUpdate
    \/ VenueFill

Spec == Init /\ [][Next]_vars

\* The event loop resumes run() whenever the await it is suspended on is done:
\* a sleep of 1 s, or an adapter request, which returns or raises.  So a step
\* of the engine that can be taken is taken.
LiveSpec == Spec /\ WF_vars(Next)

-----------------------------------------------------------------------------
(* The price sanitizer on its own: validate_and_adjust_prices applied to a   *)
(* pair of candidate prices, then to its own output, for a mid-price s > 0   *)
(* (a mid-price is the mean of two book prices).                            *)

SanMids == {1000, 20000000}

\* candidate prices around the band of a mid-price, its edges included
SanCandidates(mid) ==
    {-(mid \div 10), 0, mid \div 2, MulDiv(mid, 8, 10) - 1, MulDiv(mid, 8, 10),
     MulDiv(mid, 9, 10), MulDiv(mid, 999, 1000), mid - 1, mid, mid + 1,
     MulDiv(mid, 1001, 1000), MulDiv(mid, 11, 10), MulDiv(mid, 12, 10),
     MulDiv(mid, 12, 10) + 1, MulDiv(mid, 15, 10)}

SanOptional(mid) == {None} \cup {Some(p) : p \in SanCandidates(mid)}

SanInit ==
    /\ now = StartTime
    /\ pc = "sanitize"
    /\ Q_max = 100
    /\ risk_threshold = 50
    /\ base_order_size_usd = 100
    /\ reinit_q_max = FALSE
    /\ q = 0
    /\ real_q = 0
    /\ t = 0
    /\ market_regime = "normal"
    /\ realized_vol = Sigma
    /\ current_spread = 100
    /\ liquidity_ratio = 100
    /\ dynamic_spread_multiplier = 20
    /\ dynamic_order_multiplier = 10
    /\ dynamic_gamma = Gamma
    /\ dynamic_Q_max = 100
    /\ mid_price = 0
    /\ price_log = <<>>
    /\ last_position_sync = 0
    /\ active_orders = NoOrders
    /\ last_order_update = 0
    /\ s \in SanMids
    /\ order_book = NoBook
    /\ bid_price \in SanOptional(s)
    /\ ask_price \in SanOptional(s)
    /\ size_sol = 0
    /\ spread = 0
    /\ config = GoodConfig
    /\ markets = <<VenueMarket>>
    /\ tick_size = 0
    /\ min_quantity = 0
    /\ venue_orders = NoOrders
    /\ next_id = 1
    /\ calls = <<>>
    /\ ret = "none"
    /\ applied = <<>>

\* one application to the current pair; applied keeps the arguments
Sanitize ==
    /\ pc = "sanitize"
    /\ Len(applied) < 2
    /\ bid_price' = validate_and_adjust_prices(bid_price, ask_price, s)[1]
    /\ ask_price' = validate_and_adjust_prices(bid_price, ask_price, s)[2]
    /\ applied' = Append(applied, <<bid_price, ask_price>>)
    /\ UNCHANGED <<now, pc, risk_vars, position_vars, regime_vars, order_vars,
                   tick_vars, size_sol, spread, config, markets, tick_size, min_quantity, t,
                   current_spread, dynamic_gamma, dynamic_Q_max, mid_price,
                   price_log, calls, ret>>

SanNext == Sanitize

SanSpec == SanInit /\ [][SanNext]_vars

-----------------------------------------------------------------------------
(* The quote engine on its own: generate_intelligent_quotes applied to a     *)
(* depth snapshot, well formed or not, in any inventory and parameter state, *)
(* and then again for a larger position of the same sign with the spread of  *)
(* the first application held.                                               *)

\* order books as step() can be handed them: has_bids / has_asks say whether
\* the dict has the key
Book(has_bids, bids, has_asks, asks) ==
    [has_bids |-> has_bids, has_asks |-> has_asks, bids |-> bids, asks |-> asks]
WellFormedBooks ==
    {Book(TRUE, DepthDeep.bids, TRUE, DepthDeep.asks),
     Book(TRUE, DepthThin.bids, TRUE, DepthThin.asks)}
MalformedBooks ==
    {NoBook,                                                  \* None or {}
     Book(TRUE, DepthDeep.bids, FALSE, <<>>),                 \* no 'asks' key
     Book(FALSE, <<>>, TRUE, DepthDeep.asks),                 \* no 'bids' key
     Book(TRUE, DepthDeep.bids, TRUE, <<>>),                  \* empty side
     Book(TRUE, <<>>, TRUE, DepthDeep.asks),
     Book(TRUE, DepthThin.bids, TRUE, << <<Unparsable, 3>> >>),
     Book(TRUE, << <<Unparsable, 6>> >>, TRUE, DepthThin.asks),
     \* a level below the best bid does not parse
     Book(TRUE, << <<Unparsable, 4>>, <<19990000, 1>> >>, TRUE, DepthThin.asks)}
QuoteBooks == WellFormedBooks \cup MalformedBooks

\* positions in each tier of a ceiling of 10.00, long and short
QuotePositions == {-950, -750, -450, -100, 0, 100, 450, 750, 950}
QuoteCeilings == {0, 1000}
QuoteSpreadMultipliers == {7, 20}
QuoteMarketSpreads == {1000, 2000}

QuoteInit ==
    /\ now = StartTime
    /\ pc = "quoting"
    /\ Q_max = 500
    /\ risk_threshold = 500
    /\ base_order_size_usd = 100
    /\ reinit_q_max = TRUE
    /\ q \in QuotePositions
    /\ real_q = q
    /\ t = 0
    /\ market_regime = "normal"
    /\ realized_vol = Sigma
    /\ current_spread \in QuoteMarketSpreads
    /\ liquidity_ratio = 100
    /\ dynamic_spread_multiplier \in QuoteSpreadMultipliers
    /\ dynamic_order_multiplier = 10
    /\ dynamic_gamma = Gamma
    /\ dynamic_Q_max \in QuoteCeilings
    /\ mid_price = 20000000
    /\ price_log = <<>>
    /\ last_position_sync = 0
    /\ active_orders = NoOrders
    /\ last_order_update = 0
    /\ s = 20000000
    /\ order_book \in QuoteBooks
    /\ bid_price = None
    /\ ask_price = None
    /\ size_sol = 0
    /\ spread = 0
    /\ config = GoodConfig
    /\ markets = <<VenueMarket>>
    /\ tick_size = VenueMarket.tickSize
    /\ min_quantity = VenueMarket.minQuantity
    /\ venue_orders = NoOrders
    /\ next_id = 1
    /\ calls = <<>>
    /\ ret = "none"
    /\ applied = <<>>

\* what an application of the quote engine leaves alone
QuoteFrame ==
    UNCHANGED <<now, risk_vars, last_position_sync, regime_vars, order_vars,
                tick_vars, size_sol, config, markets, tick_size, min_quantity,
                t, current_spread, dynamic_gamma, dynamic_Q_max, mid_price,
                price_log, calls, ret>>

\* generate_intelligent_quotes(s, order_book); applied keeps the position and
\* the pair returned
QuoteGenerate ==
    /\ pc = "quoting"
    /\ spread' = IF dynamic_Q_max = 0 THEN 0      \* raised before it is set
                 ELSE calculate_competitive_spread(s, order_book)
    /\ bid_price' = generate_intelligent_quotes(s, order_book)[1]
    /\ ask_price' = generate_intelligent_quotes(s, order_book)[2]
    /\ applied' = Append(applied, <<q, generate_intelligent_quotes(s, order_book)[1],
                                       generate_intelligent_quotes(s, order_book)[2]>>)
    /\ pc' = "quoted"
    /\ UNCHANGED <<q, real_q>>
    /\ QuoteFrame

\* the position grows on its side and the tiers are taken again, s and the
\* spread held
QuoteRetier ==
    /\ pc = "quoted"
    /\ Len(applied) = 1
    /\ \E position \in QuotePositions :
        /\ Abs(position) > Abs(q)
        /\ (position > 0) = (q > 0)
        /\ q # 0
        /\ q' = position
        /\ real_q' = position
    /\ QuoteFrame
    /\ spread' = spread
    /\ bid_price' = (QuotesWithSpread(s, spread, order_book)[1])'
    /\ ask_price' = (QuotesWithSpread(s, spread, order_book)[2])'
    /\ applied' = Append(applied, <<q', bid_price', ask_price'>>)
    /\ pc' = "retiered"

QuoteNext == QuoteGenerate \/ QuoteRetier

QuoteSpec == QuoteInit /\ [][QuoteNext]_vars

-----------------------------------------------------------------------------
(* The first turn of the loop, against an instrument with a tick of 0.01 or *)
(* of 0.05 USD: startup, the depth, the sync, the hedge, the quotes and the *)
(* placements of smart_order_update                                         *)

FirstTickListings == {<<SpotMarket, VenueMarket>>, <<SpotMarket, CoarseTickMarket>>}

FirstTickInit ==
    /\ now = StartTime
    /\ pc = "start"
    /\ Q_max = 100
    /\ risk_threshold = 50
    /\ base_order_size_usd = 100
    /\ reinit_q_max = FALSE
    /\ q = 0
    /\ real_q = 0
    /\ t = 0
    /\ market_regime = "normal"
    /\ realized_vol = Sigma
    /\ current_spread = 100
    /\ liquidity_ratio = 100
    /\ dynamic_spread_multiplier = 20
    /\ dynamic_order_multiplier = 10
    /\ dynamic_gamma = Gamma
    /\ dynamic_Q_max = 100
    /\ mid_price = 0
    /\ price_log = <<>>
    /\ last_position_sync = 0
    /\ active_orders = NoOrders
    /\ last_order_update = 0
    /\ s = 0
    /\ order_book = NoBook
    /\ bid_price = None
    /\ ask_price = None
    /\ size_sol = 0
    /\ spread = 0
    /\ config = GoodConfig
    /\ markets \in FirstTickListings
    /\ tick_size = 0
    /\ min_quantity = 0
    /\ venue_orders = NoOrders
    /\ next_id = 1
    /\ calls = <<>>
    /\ ret = "none"
    /\ applied = <<>>

FirstTickNext ==
    \/ Startup
    \/ FetchDepth
    \/ SyncPosition
    \/ SyncAdapterFailure
    \/ ClassifyInsufficient
    \/ HedgeSkipped
    \/ HedgeOrder
    \/ Quote
    \/ SubmitUpdate

FirstTickSpec == FirstTickInit /\ [][FirstTickNext]_vars

-----------------------------------------------------------------------------
(* step() from its quote stage on, for any depth snapshot it may be handed,  *)
(* well formed or not, with orders of earlier ticks resting on the venue     *)

StepResting == {NoOrders,
                [id \in {1} |-> "buy"],
                [id \in {1, 2} |-> IF id = 1 THEN "buy" ELSE "sell"]}

StepInit ==
    /\ now = StartTime
    /\ pc = "quote"
    /\ Q_max = 1000
    /\ risk_threshold = 500
    /\ base_order_size_usd = 100
    /\ reinit_q_max = TRUE
    /\ q \in QuotePositions
    /\ real_q = q
    /\ t = 0
    /\ market_regime = "normal"
    /\ realized_vol = Sigma
    /\ current_spread = 2000
    /\ liquidity_ratio = 100
    /\ dynamic_spread_multiplier = 20
    /\ dynamic_order_multiplier = 10
    /\ dynamic_gamma = Gamma
    /\ dynamic_Q_max = 1000
    /\ mid_price = 20000000
    /\ price_log = <<20000000>>
    /\ last_position_sync = StartTime
    /\ venue_orders \in StepResting
    /\ active_orders = venue_orders
    /\ last_order_update \in {0, StartTime}
    /\ s = 20000000
    /\ order_book \in QuoteBooks
    /\ bid_price = None
    /\ ask_price = None
    /\ size_sol = 0
    /\ spread = 0
    /\ config = GoodConfig
    /\ markets = <<VenueMarket>>
    /\ tick_size = VenueMarket.tickSize
    /\ min_quantity = VenueMarket.minQuantity
    /\ next_id = Cardinality(DOMAIN venue_orders) + 1
    /\ calls = <<>>
    /\ ret = "none"
    /\ applied = <<>>

StepNext ==
    \/ Quote
    \/ SubmitThrottled
    \/ SubmitUpdate
    \/ SubmitNoQuotes

StepSpec == StepInit /\ [][StepNext]_vars

-----------------------------------------------------------------------------
(* What the log of a tick shows *)

CallsOf(op) == {i \in 1..Len(calls) : calls[i].op = op}
\* the update of this tick went past the throttle
UpdatedThisTick == CallsOf("get_open_orders") # {}
\* the ids of the limit orders this tick's update placed
PlacedThisTick == {calls[i].id : i \in {j \in CallsOf("limit_order") : calls[j].ok}}
SyncFailedThisTick == \E i \in CallsOf("get_open_positions") : ~calls[i].ok

-----------------------------------------------------------------------------
(* C1: a call of smart_order_update made less than update_interval after the *)
(* last permitted update returns False and does nothing else: no request to  *)
(* the venue, active_orders and last_order_update as they were.  So of two   *)
(* calls within one interval at most one changes anything at the venue.      *)
C1_ThrottledCallHasNoEffect ==
    [][(/\ pc = "submit"
        /\ Truthy(bid_price) \/ Truthy(ask_price)
        /\ now - last_order_update < update_interval)
       => (/\ ret' = "False"
           /\ calls' = calls
           /\ active_orders' = active_orders
           /\ venue_orders' = venue_orders
           /\ next_id' = next_id
           /\ last_order_update' = last_order_update)]_vars

\* a second call in the interval of a stamped update has returned False
C1_Witness ==
    /\ pc = "sleep"
    /\ ret = "False"
    /\ last_order_update > 0
    /\ now - last_order_update < update_interval
    /\ DOMAIN venue_orders # {}

(* C2: the pair step() hands to the order manager is the output of           *)
(* validate_and_adjust_prices applied to the quote engine's candidates.      *)
C2_HandedPairIsSanitized ==
    pc = "submit" =>
        <<bid_price, ask_price>> =
            validate_and_adjust_prices(generate_intelligent_quotes(s, order_book)[1],
                                       generate_intelligent_quotes(s, order_book)[2],
                                       s)

(* C3: every limit order of a tick with mid-price s has its buy price in     *)
(* [0.8 s, s) and its sell price in (s, 1.2 s], and the sell price above the *)
(* buy price when both are placed.                                           *)
C3_PlacedQuotesInBand ==
    \A i \in CallsOf("limit_order") :
        /\ calls[i].side = "Bid" =>
                5 * calls[i].price >= 4 * s /\ calls[i].price < s
        /\ calls[i].side = "Ask" =>
                calls[i].price > s /\ 5 * calls[i].price <= 6 * s
        /\ \A j \in CallsOf("limit_order") :
                (calls[i].side = "Bid" /\ calls[j].side = "Ask")
                    => calls[j].price > calls[i].price

-----------------------------------------------------------------------------
SanValid(pair, mid) ==
    /\ pair[1] # None => (5 * Val(pair[1]) >= 4 * mid /\ Val(pair[1]) < mid)
    /\ pair[2] # None => (Val(pair[2]) > mid /\ 5 * Val(pair[2]) <= 6 * mid)

(* C5: validate_and_adjust_prices is idempotent: a pair that satisfies the   *)
(* band and ordering rules comes back as it is, and for any pair the second  *)
(* application returns the output of the first.                              *)
C5_Idempotent ==
    /\ (Len(applied) = 1 /\ SanValid(applied[1], s))
            => <<bid_price, ask_price>> = applied[1]
    /\ Len(applied) = 2 => <<bid_price, ask_price>> = applied[2]

\* a second application, of a pair the first one had changed on both sides
C5_Witness ==
    /\ Len(applied) = 2
    /\ applied[2] # applied[1]
    /\ applied[2][1] # applied[1][1]
    /\ applied[2][2] # applied[1][2]

-----------------------------------------------------------------------------
(* C6: with |q| / dynamic_Q_max >= 0.9 the quote engine returns one side     *)
(* only, the unwind side: an ask at best_bid * (1 + rebate_rate) when long,  *)
(* a bid at best_ask * (1 - rebate_rate) when short.                         *)
C6_EmergencyQuoteIsOneSided ==
    (pc = "submit" /\ 10 * Abs(q) >= 9 * dynamic_Q_max) =>
        LET best_bid == MaxPrice(order_book.bids)
            best_ask == MinPrice(order_book.asks)
        IN  /\ q > 0 => /\ bid_price = None
                        /\ ask_price = Some(best_bid + best_bid \div RebateDen)
            /\ q < 0 => /\ ask_price = None
                        /\ bid_price = Some(best_ask - best_ask \div RebateDen)
            /\ q # 0

\* a short position at the ceiling has been quoted
C6_Witness ==
    /\ pc = "submit"
    /\ q < 0
    /\ 10 * Abs(q) >= 9 * dynamic_Q_max
    /\ bid_price # None

(* C7: on a permitted update a cancel request is issued, before any order is *)
(* placed, for every order that an earlier update recorded in active_orders  *)
(* and that still rests on the venue, also when the open-order query fails.  *)
C7_TrackedOrdersAreCancelled ==
    (pc = "sleep" /\ UpdatedThisTick) =>
        \A id \in (DOMAIN active_orders \cap DOMAIN venue_orders) \ PlacedThisTick :
            \E i \in CallsOf("cancel_order") :
                /\ calls[i].id = id
                /\ \A j \in CallsOf("limit_order") : i < j

(* C8: after a permitted update active_orders holds exactly the orders that  *)
(* update placed (so never more than two, and none that was cancelled).      *)
C8_MapHoldsOnlyThisUpdate ==
    (pc = "sleep" /\ UpdatedThisTick) => DOMAIN active_orders = PlacedThisTick

(* C9: when the adapter call of the position sync fails, the rest of the     *)
(* tick is skipped: no hedge, no quotes, no order update.                    *)
C9_FailedSyncSkipsTick ==
    SyncFailedThisTick =>
        /\ Len(calls) = 1
        /\ bid_price = None /\ ask_price = None
        /\ pc \in {"classify", "sleep"}

(* C10: the hedge issues no order while |real_q| <= risk_threshold, and with *)
(* |real_q| at the inventory ceiling (dynamic_Q_max, the Q_max of the hedge  *)
(* formula) hedge_ratio is 1.0: the order is for the whole position, in      *)
(* every regime.                                                             *)
C10_HedgeThresholdAndCeiling ==
    pc = "quote" =>
        /\ Abs(real_q) <= risk_threshold => CallsOf("market_order") = {}
        /\ Abs(real_q) = dynamic_Q_max =>
            /\ HedgeRatio = <<1, 1>>
            /\ \E i \in CallsOf("market_order") :
                 calls[i].qty = align_floor(Abs(real_q), min_quantity)

\* a position at the ceiling of a regime entered by a transition was hedged
C10_Witness ==
    /\ pc = "quote"
    /\ market_regime = "stress"
    /\ Abs(real_q) = dynamic_Q_max
    /\ CallsOf("market_order") # {}

-----------------------------------------------------------------------------
(* C11 as it is stated: with |real_q| > risk_threshold the hedge is one      *)
(* market order (reduce-only), on the side opposite to the sign of real_q,   *)
(* whose size is |real_q| * hedge_ratio.                                     *)
C11_HedgeSizeIsExact ==
    (pc = "quote" /\ Abs(real_q) > risk_threshold) =>
        /\ Cardinality(CallsOf("market_order")) = 1
        /\ \A i \in CallsOf("market_order") :
            /\ calls[i].side = (IF real_q > 0 THEN "Ask" ELSE "Bid")
            /\ calls[i].qty = MulDiv(Abs(real_q), HedgeRatio[1], HedgeRatio[2])

(* C11 amended: the size sent is |real_q| * hedge_ratio floored to a whole   *)
(* multiple of minQuantity (hedge_ratio taken with dynamic_Q_max).           *)
C11_HedgeOrderIsFlooredSize ==
    (pc = "quote" /\ Abs(real_q) > risk_threshold) =>
        /\ Cardinality(CallsOf("market_order")) = 1
        /\ \A i \in CallsOf("market_order") :
            /\ calls[i].side = (IF real_q > 0 THEN "Ask" ELSE "Bid")
            /\ calls[i].qty =
                    align_floor(MulDiv(Abs(real_q), HedgeRatio[1], HedgeRatio[2]),
                                min_quantity)

\* a short position hedged in part by a buy of less than |real_q| * hedge_ratio
C11_Witness ==
    /\ pc = "quote"
    /\ real_q < 0
    /\ HedgeRatio # <<1, 1>>
    /\ \E i \in CallsOf("market_order") :
            /\ calls[i].side = "Bid"
            /\ calls[i].qty < MulDiv(Abs(real_q), HedgeRatio[1], HedgeRatio[2])

-----------------------------------------------------------------------------
\* a snapshot with a key missing, an empty side, or a price that does not parse
Malformed(book) ==
    \/ ~book.has_bids \/ ~book.has_asks
    \/ book.bids = <<>> \/ book.asks = <<>>
    \/ \E i \in 1..Len(book.bids) : book.bids[i][1] = Unparsable
    \/ \E i \in 1..Len(book.asks) : book.asks[i][1] = Unparsable

\* the same, of the two prices the quote engine reads: the last bid, the first ask
MalformedAtBest(book) ==
    \/ ~book.has_bids \/ ~book.has_asks
    \/ book.bids = <<>> \/ book.asks = <<>>
    \/ book.bids[Len(book.bids)][1] = Unparsable
    \/ book.asks[1][1] = Unparsable

(* C12 as it is stated: for a malformed depth snapshot (absent, a key        *)
(* missing, an empty side, a price that does not parse)                      *)
(* generate_intelligent_quotes returns (None, None), whatever the inventory  *)
(* and the parameters; it returns, it does not raise.                        *)
C12_MalformedGivesNoQuotes ==
    (pc = "quoted" /\ Malformed(order_book)) =>
        (bid_price = None /\ ask_price = None)

(* C12 amended: (None, None) for a snapshot that is absent, lacks a key, has *)
(* an empty side or whose best bid or best ask does not parse; the other     *)
(* levels are not read.                                                      *)
C12_MalformedAtBestGivesNoQuotes ==
    (pc = "quoted" /\ MalformedAtBest(order_book)) =>
        (bid_price = None /\ ask_price = None)

\* applied to a book whose best ask does not parse, with a position and a
\* ceiling that would give quotes
C12_Witness ==
    /\ pc = "quoted"
    /\ order_book.asks # <<>> /\ order_book.asks[1][1] = Unparsable
    /\ order_book.bids # <<>>
    /\ q < 0 /\ dynamic_Q_max # 0
    /\ bid_price = None /\ ask_price = None

-----------------------------------------------------------------------------
\* the tier of a position: 0 below a ratio of 0.4, then 1, 2, and 3 from 0.9
Tier(position) ==
    IF 10 * Abs(position) >= 9 * dynamic_Q_max THEN 3
    ELSE IF 10 * Abs(position) >= 7 * dynamic_Q_max THEN 2
    ELSE IF 10 * Abs(position) >= 4 * dynamic_Q_max THEN 1
    ELSE 0
\* of an application <<position, bid, ask>>: the quote that reduces the
\* position and the one that adds to it
UnwindQuote(a) == IF a[1] > 0 THEN a[3] ELSE a[2]
AccumulateQuote(a) == IF a[1] > 0 THEN a[2] ELSE a[3]
DistanceToMid(quote) == Abs(Val(quote) - s)
\* the position went up by at least one tier between the two applications
CrossedUpward ==
    /\ pc = "retiered"
    /\ ~MalformedAtBest(order_book)
    /\ dynamic_Q_max # 0
    /\ Tier(applied[2][1]) > Tier(applied[1][1])
CloserAndFarther ==
    /\ UnwindQuote(applied[1]) # None /\ UnwindQuote(applied[2]) # None
    /\ AccumulateQuote(applied[1]) # None /\ AccumulateQuote(applied[2]) # None
    /\ DistanceToMid(UnwindQuote(applied[2])) < DistanceToMid(UnwindQuote(applied[1]))
    /\ DistanceToMid(AccumulateQuote(applied[2]))
            > DistanceToMid(AccumulateQuote(applied[1]))

-----------------------------------------------------------------------------
(* C18: with the inventory ratio below 0.4 and a well-formed book the quote  *)
(* engine returns both sides, symmetric around the mid-price s, and          *)
(* ask - bid is the spread calculate_competitive_spread returned (1 u of     *)
(* spread is 20 pu of price).                                                *)
C18_LowTierIsSymmetric ==
    (pc = "submit" /\ 10 * Abs(q) < 4 * dynamic_Q_max) =>
        /\ bid_price # None /\ ask_price # None
        /\ s - Val(bid_price) = Val(ask_price) - s
        /\ Val(ask_price) - Val(bid_price)
                = 20 * calculate_competitive_spread(s, order_book)

\* quoted in the low tier with a position that is not 0
C18_Witness ==
    /\ pc = "submit"
    /\ q > 0
    /\ 10 * Abs(q) < 4 * dynamic_Q_max
    /\ 10 * Abs(q) >= 3 * dynamic_Q_max
    /\ bid_price # None /\ ask_price # None

-----------------------------------------------------------------------------
\* the requests a step adds to the log of the tick
NewCalls == SubSeq(calls', Len(calls) + 1, Len(calls'))

(* C13: in a permitted update every order the venue lists gets its cancel    *)
(* request, whether or not an earlier cancel failed; each desired side gets  *)
(* its placement attempt, whether or not a cancel or the other placement     *)
(* failed; and active_orders gains the orders placed and no entry for a      *)
(* placement that failed.                                                    *)
C13_FailuresDoNotAbortTheUpdate ==
    [][(pc = "submit" /\ calls' # calls) =>
        /\ NewCalls[1].op = "get_open_orders"
        /\ NewCalls[1].ok =>
                \A id \in DOMAIN venue_orders :
                    \E i \in 1..Len(NewCalls) :
                        NewCalls[i].op = "cancel_order" /\ NewCalls[i].id = id
        /\ Truthy(bid_price) =>
                \E i \in 1..Len(NewCalls) :
                    NewCalls[i].op = "limit_order" /\ NewCalls[i].side = "Bid"
        /\ Truthy(ask_price) =>
                \E i \in 1..Len(NewCalls) :
                    NewCalls[i].op = "limit_order" /\ NewCalls[i].side = "Ask"
        /\ DOMAIN active_orders' \ DOMAIN active_orders =
                {NewCalls[i].id : i \in {j \in 1..Len(NewCalls) :
                    NewCalls[j].op = "limit_order" /\ NewCalls[j].ok}}
      ]_vars

\* an update in which a cancel failed, a later cancel was sent, the buy
\* failed and the sell was placed
C13_Witness ==
    /\ pc = "sleep"
    /\ \E i, j, k, l \in 1..Len(calls) :
        /\ i < j /\ j < k /\ k < l
        /\ calls[i].op = "cancel_order" /\ ~calls[i].ok
        /\ calls[j].op = "cancel_order"
        /\ calls[k].op = "limit_order" /\ calls[k].side = "Bid" /\ ~calls[k].ok
        /\ calls[l].op = "limit_order" /\ calls[l].side = "Ask" /\ calls[l].ok
        /\ calls[l].id \in DOMAIN active_orders

-----------------------------------------------------------------------------
\* a step in which the adapter call of the position sync returned the position
SyncSucceededInStep ==
    /\ Len(calls') = Len(calls) + 1
    /\ NewCalls[1].op = "get_open_positions"
    /\ NewCalls[1].ok

(* C14: q equals real_q in every state; a sync whose adapter call failed or  *)
(* that the interval skipped writes neither field, and no step other than a  *)
(* successful sync writes either.                                            *)
C14_OnlySuccessfulSyncWritesPosition ==
    [][/\ q' = real_q'
       /\ ~SyncSucceededInStep => (q' = q /\ real_q' = real_q)
      ]_vars

-----------------------------------------------------------------------------
(* C15: once startup has succeeded the loop never ends: whatever fails in a  *)
(* tick, a later turn of the loop begins with its fetch, again and again     *)
(* (unless startup itself was fatal).                                        *)
C15_LaterTickAlwaysBegins ==
    []<>(pc = "fetch" \/ pc = "fatal")

\* a turn of the loop, not the first, at its sleep after a failed hedge order
\* and a failed placement
C15_Witness ==
    /\ pc = "sleep"
    /\ Len(price_log) >= 2
    /\ \E i \in CallsOf("market_order") : ~calls[i].ok
    /\ \E i \in CallsOf("limit_order") : ~calls[i].ok

-----------------------------------------------------------------------------
(* C16: risk_threshold = 5 * base_order_size_usd / mid and Q_max = 2 *       *)
(* risk_threshold are derived once, in the first turn of the loop that has a *)
(* mid-price (a turn with an empty side of the book does not derive them);   *)
(* from then on no base field of RiskParameters changes: a change of regime  *)
(* writes the dynamic fields only.                                           *)
C16_DerivedOnceThenFrozen ==
    [][/\ reinit_q_max => (reinit_q_max' /\ UNCHANGED <<Q_max, risk_threshold,
                                                         base_order_size_usd>>)
       /\ (~reinit_q_max /\ price_log' = price_log) =>
                (~reinit_q_max' /\ UNCHANGED <<Q_max, risk_threshold,
                                               base_order_size_usd>>)
       /\ (~reinit_q_max /\ price_log' # price_log) =>
                /\ reinit_q_max'
                /\ risk_threshold' * (s' \div 100) <= 5 * base_order_size_usd' * 200000
                /\ (risk_threshold' + 1) * (s' \div 100) > 5 * base_order_size_usd' * 200000
                /\ Q_max' = 2 * risk_threshold'
      ]_vars

\* the regime changed after the derivation and the base fields are the derived ones
C16_Witness ==
    /\ reinit_q_max
    /\ market_regime = "stress"
    /\ dynamic_Q_max # Q_max
    /\ risk_threshold = 500 /\ Q_max = 1000

-----------------------------------------------------------------------------
\* the configuration cannot be resolved: a key is missing, the ticker is
\* empty, no market of the venue matches it, or the one that does has tick 0
ConfigurationUnresolved ==
    \/ config.public_key = "" \/ config.secret_key = ""
    \/ config.ticker = ""
    \/ \A i \in 1..Len(markets) :
           MarketMatches(markets[i], config) => markets[i].tickSize = 0

(* C19: when the configuration cannot be resolved, startup ends in an error  *)
(* before the loop: the run is at its start or has ended with ValueError, no *)
(* depth was fetched, no price logged, no request sent to the venue and no   *)
(* order rests there.                                                        *)
C19_UnresolvedConfigurationRunsNoTick ==
    ConfigurationUnresolved =>
        /\ pc \in {"start", "fatal"}
        /\ pc = "fatal" => ret = "ValueError"
        /\ calls = <<>> /\ price_log = <<>>
        /\ s = 0 /\ order_book = NoBook
        /\ venue_orders = NoOrders /\ active_orders = NoOrders
        /\ tick_size = 0

\* the run ended at startup because the matching market has tick size 0
C19_Witness ==
    /\ pc = "fatal"
    /\ ClientCreated(config)
    /\ \E i \in 1..Len(markets) :
          MarketMatches(markets[i], config) /\ markets[i].tickSize = 0

-----------------------------------------------------------------------------
(* C20: every quantity of a limit or market order sent to the venue is a     *)
(* multiple of minQuantity and not above the quantity asked for (the size of *)
(* the quote, the size of the hedge); every limit price sent is a multiple   *)
(* of tickSize.                                                              *)
C20_SentOrdersAreAligned ==
    \A i \in 1..Len(calls) :
        /\ calls[i].op = "limit_order" =>
                /\ calls[i].qty % min_quantity = 0
                /\ calls[i].qty <= size_sol
                /\ calls[i].price % tick_size = 0
        /\ calls[i].op = "market_order" =>
                /\ calls[i].qty % min_quantity = 0
                /\ calls[i].qty <= HedgeSize

-----------------------------------------------------------------------------
\* a step of enhanced_market_regime_detection that had enough mid-prices
ClassifiedInStep == pc = "classify" /\ pc' = "hedge" /\ Len(price_log) >= MinHistory

(* C21: after a classification with enough data the regime is decided by    *)
(* the composite signal of the stored realized_vol and liquidity_ratio alone,*)
(* whatever the regime was: stress iff signal > 2.0, high volatility iff     *)
(* 1.5 < signal <= 2.0, low volatility iff signal < 0.7, normal iff          *)
(* 0.7 <= signal <= 1.5.                                                     *)
C21_RegimeIsFunctionOfSignal ==
    [][ClassifiedInStep =>
        LET signal == CompositeSignal(realized_vol', liquidity_ratio')
        IN  /\ (market_regime' = "stress") <=> (signal > 2000)
            /\ (market_regime' = "high_volatility") <=> (1500 < signal /\ signal <= 2000)
            /\ (market_regime' = "low_volatility") <=> (signal < 700)
            /\ (market_regime' = "normal") <=> (700 <= signal /\ signal <= 1500)
      ]_vars

\* a second classification of the run, which ends in high volatility
C21_Witness ==
    /\ pc = "hedge" /\ ret = "True"
    /\ Len(price_log) > MinHistory
    /\ market_regime = "high_volatility"
    /\ dynamic_Q_max = (Q_max * 12) \div 10

-----------------------------------------------------------------------------
\* the table of the claim: <<gamma, Q_max, size, spread>> in tenths
TableOfRegime(regime) ==
    IF regime = "normal" THEN <<10, 20, 10, 10>>
    ELSE IF regime = "high_volatility" THEN <<14, 12, 5, 18>>
    ELSE IF regime = "low_volatility" THEN <<7, 26, 14, 7>>
    ELSE <<20, 8, 3, 25>>

(* C22: a classification that changes the regime sets the four dynamic       *)
(* parameters to the base gamma and Q_max times the multipliers of the new   *)
(* regime and to its size and spread multipliers; a classification that      *)
(* leaves the regime as it was leaves the four as they were.                 *)
C22_RegimeChangeRecomputesDynamics ==
    [][ClassifiedInStep =>
        IF market_regime' # market_regime
        THEN /\ 10 * dynamic_gamma' = Gamma * TableOfRegime(market_regime')[1]
             /\ dynamic_Q_max' = (Q_max * TableOfRegime(market_regime')[2]) \div 10
             /\ dynamic_order_multiplier' = TableOfRegime(market_regime')[3]
             /\ dynamic_spread_multiplier' = TableOfRegime(market_regime')[4]
        ELSE UNCHANGED <<dynamic_gamma, dynamic_Q_max, dynamic_order_multiplier,
                         dynamic_spread_multiplier>>
      ]_vars

\* the regime came back to normal: the dynamic values are those of the table,
\* not those of construction
C22_Witness ==
    /\ pc = "hedge" /\ ret = "True"
    /\ Len(price_log) > MinHistory
    /\ market_regime = "normal"
    /\ dynamic_gamma = Gamma
    /\ dynamic_Q_max = 2 * Q_max
    /\ dynamic_spread_multiplier = 10

-----------------------------------------------------------------------------
(* C23: a classification made while fewer than 10 mid-prices are stored      *)
(* changes neither the regime, realized_vol, liquidity_ratio nor any of the  *)
(* four dynamic parameters, and returns False.                               *)
C23_ShortHistoryClassificationIsNoOp ==
    [][(pc = "classify" /\ Len(price_log) < 10) =>
        /\ ret' = "False"
        /\ UNCHANGED <<market_regime, realized_vol, liquidity_ratio,
                       dynamic_gamma, dynamic_Q_max, dynamic_order_multiplier,
                       dynamic_spread_multiplier>>
      ]_vars

\* the ninth tick of a run was classified, with a position on the book
C23_Witness ==
    /\ pc = "hedge" /\ ret = "False"
    /\ Len(price_log) = 9
    /\ real_q # 0
    /\ market_regime = "normal" /\ dynamic_spread_multiplier = 20

-----------------------------------------------------------------------------
\* the three levels of each side nearest to the mid-price: the best bid is the
\* last level of bids, the best ask the first level of asks
TopBidDepth(book) == SumSizes(LastN(book.bids, 3))
TopAskDepth(book) == SumSizes(FirstN(book.asks, 3))

(* C24: after a classification with enough data liquidity_ratio is the sum   *)
(* of the sizes of the three best bids over the sum of the sizes of the      *)
(* three best asks when that ask depth is positive, and 1.0 when it is zero  *)
(* or when the book is absent or lacks a side.                               *)
C24_LiquidityRatioOfTopThree ==
    [][ClassifiedInStep =>
        liquidity_ratio' =
            IF order_book.has_bids /\ order_book.has_asks
               /\ TopAskDepth(order_book) > 0
            THEN (100 * TopBidDepth(order_book)) \div TopAskDepth(order_book)
            ELSE 100
      ]_vars

-----------------------------------------------------------------------------
\* the rule of the claim for one side, applied to a candidate price
RuledBid(bid, mid) ==
    IF bid = None THEN None
    ELSE IF Val(bid) >= mid THEN Some(MulDiv(mid, 999, 1000))
    ELSE IF 10 * Val(bid) < 8 * mid THEN Some(MulDiv(mid, 8, 10))
    ELSE bid
RuledAsk(ask, mid) ==
    IF ask = None THEN None
    ELSE IF Val(ask) <= mid THEN Some(MulDiv(mid, 1001, 1000))
    ELSE IF 10 * Val(ask) > 12 * mid THEN Some(MulDiv(mid, 12, 10))
    ELSE ask

(* C25: for s > 0 validate_and_adjust_prices returns, for a present bid, a   *)
(* bid in [0.8 s, s): 0.999 s for a bid >= s, 0.8 s for a bid < 0.8 s, the   *)
(* bid itself otherwise; for a present ask an ask in (s, 1.2 s]: 1.001 s for *)
(* an ask <= s, 1.2 s for an ask > 1.2 s, the ask itself otherwise; an       *)
(* absent side stays absent; the two sides so ruled are never inverted, so   *)
(* the repair of an inversion changes nothing.                               *)
C25_SidesAreRuledIndependently ==
    Len(applied) >= 1 =>
        LET arg == applied[Len(applied)]
            bid == RuledBid(arg[1], s)
            ask == RuledAsk(arg[2], s)
        IN  /\ bid_price = bid
            /\ ask_price = ask
            /\ bid_price # None =>
                    (10 * Val(bid_price) >= 8 * s /\ Val(bid_price) < s)
            /\ ask_price # None =>
                    (Val(ask_price) > s /\ 10 * Val(ask_price) <= 12 * s)
            /\ (bid # None /\ ask # None) => ~(Val(ask) <= Val(bid))

\* both prices came in on the wrong side of the mid-price, the bid above the
\* band and the ask below it
C25_Witness ==
    /\ Len(applied) = 1
    /\ applied[1][1] # None /\ applied[1][2] # None
    /\ 10 * Val(applied[1][1]) > 12 * s
    /\ 10 * Val(applied[1][2]) < 8 * s
    /\ bid_price = Some(MulDiv(s, 999, 1000))
    /\ ask_price = Some(MulDiv(s, 1001, 1000))

-----------------------------------------------------------------------------
(* C26: a sync made less than position_sync_interval (1 s) after the last    *)
(* one sends no position query to the venue and leaves q, real_q and         *)
(* last_position_sync as they were; so the position is refreshed at most     *)
(* once per interval.                                                        *)
C26_SyncWithinIntervalIsSkipped ==
    [][/\ (pc = "sync" /\ now - last_position_sync < 10) =>
            (calls' = calls /\ UNCHANGED <<q, real_q, last_position_sync>>)
       /\ (q' # q \/ real_q' # real_q \/ last_position_sync' # last_position_sync) =>
            (pc = "sync" /\ now - last_position_sync >= 10)
      ]_vars

\* a tick whose sync was skipped: no query in the log, the position of the
\* sync before is kept
C26_Witness ==
    /\ pc = "classify"
    /\ now - last_position_sync < 10
    /\ last_position_sync > 0
    /\ calls = <<>>
    /\ real_q # 0

-----------------------------------------------------------------------------
\* the stages of a tick in the order of the claim, and the moves from one
\* position of the run to the next that keep it
StageOrder == <<"sync", "classify", "hedge", "quote", "submit">>
OrderedMoves ==
    {<<StageOrder[i], StageOrder[i + 1]>> : i \in 1..(Len(StageOrder) - 1)}
        \cup {<<"fetch", "sync">>, <<"submit", "sleep">>}
        \cup {<<"start", "fetch">>, <<"start", "fatal">>, <<"fetch", "sleep">>,
              <<"sleep", "fetch">>}

\* the stage a request to the venue belongs to
StageOfCall(op) ==
    IF op = "get_open_positions" THEN 1
    ELSE IF op = "market_order" THEN 3
    ELSE 5

(* C27: within a tick the stages run in the order sync, classify, hedge,     *)
(* quote, submit, each at most once: the run moves from a stage only to the  *)
(* next one, a tick begins only with the fetch of a depth, and in the        *)
(* requests of a tick the position query comes before the hedge order and    *)
(* the hedge order before every request of the order update.                 *)
C27_StagesRunInOrder ==
    [][/\ pc' # pc => <<pc, pc'>> \in OrderedMoves
       /\ price_log' # price_log => (pc = "fetch" /\ pc' = "sync")
       /\ \A i, j \in 1..Len(calls') :
             i < j => StageOfCall(calls'[i].op) <= StageOfCall(calls'[j].op)
      ]_vars

\* a tick that queried the position, sent a hedge order and then cancelled
\* and placed orders
C27_Witness ==
    /\ pc = "sleep"
    /\ CallsOf("get_open_positions") # {}
    /\ CallsOf("market_order") # {}
    /\ CallsOf("cancel_order") # {}
    /\ CallsOf("limit_order") # {}

-----------------------------------------------------------------------------
(* C28: the requests of a tick hold at most one hedge (market) order, in any *)
(* position and regime and whether the venue took it or not.                 *)
C28_AtMostOneHedgePerTick ==
    Cardinality(CallsOf("market_order")) <= 1

\* the hedge order of a tick failed and the tick went on to its end, in a
\* regime other than normal
C28_Witness ==
    /\ pc = "sleep"
    /\ market_regime # "normal"
    /\ \E i \in CallsOf("market_order") : ~calls[i].ok
    /\ CallsOf("limit_order") # {}

-----------------------------------------------------------------------------
\* the place of a request in the sequence of an update
RankInUpdate(call) ==
    IF call.op = "get_open_orders" THEN 0
    ELSE IF call.op = "cancel_order" THEN 1
    ELSE IF call.op = "limit_order" /\ call.side = "Bid" THEN 2
    ELSE IF call.op = "limit_order" /\ call.side = "Ask" THEN 3
    ELSE 4

(* C29: the requests of a permitted update form one sequence in which each   *)
(* request has its outcome before the next one is made: the query of the     *)
(* open orders, then every cancel, then the buy, then the sell, no two       *)
(* requests of the same placement; and an entry of the local map is written  *)
(* under the identifier its placement returned, for the side of that         *)
(* placement.                                                                *)
C29_UpdateRequestsAreSequential ==
    [][(pc = "submit" /\ calls' # calls) =>
        /\ \A i \in 1..Len(NewCalls) : RankInUpdate(NewCalls[i]) <= 3
        /\ \A i, j \in 1..Len(NewCalls) :
              i < j =>
                /\ RankInUpdate(NewCalls[i]) <= RankInUpdate(NewCalls[j])
                /\ RankInUpdate(NewCalls[i]) = RankInUpdate(NewCalls[j])
                        => RankInUpdate(NewCalls[i]) = 1
        /\ \A id \in DOMAIN active_orders' \ DOMAIN active_orders :
              \E i \in 1..Len(NewCalls) :
                /\ NewCalls[i].op = "limit_order" /\ NewCalls[i].ok
                /\ NewCalls[i].id = id
                /\ active_orders'[id] = (IF NewCalls[i].side = "Bid" THEN "buy" ELSE "sell")
      ]_vars

\* an update that cancelled an order and then placed a buy and a sell, both
\* recorded
C29_Witness ==
    /\ pc = "sleep"
    /\ \E i \in CallsOf("cancel_order") : calls[i].ok
    /\ Cardinality(PlacedThisTick) = 2
    /\ PlacedThisTick \subseteq DOMAIN active_orders

-----------------------------------------------------------------------------
\* 1 - 0.4 * |q| / dynamic_Q_max <= 0
PenaltyNotPositive == 4 * Abs(q) >= 10 * dynamic_Q_max

(* C30: the quantity step() hands to the order manager is                    *)
(* max(order_size_usd / s, min_quantity): never below the venue's minimum,   *)
(* and the minimum itself when the inventory penalty is zero or negative;    *)
(* the buy and the sell of an update are sent with the same quantity.        *)
C30_SizeIsFlooredAtVenueMinimum ==
    (pc \in {"submit", "sleep"} /\ (bid_price # None \/ ask_price # None)) =>
        /\ size_sol = Max((calculate_dynamic_order_size(s) * 2000) \div (s \div 100),
                          min_quantity)
        /\ size_sol >= min_quantity
        /\ PenaltyNotPositive => size_sol = min_quantity
        /\ \A i, j \in CallsOf("limit_order") : calls[i].qty = calls[j].qty
        /\ \A i \in CallsOf("limit_order") : calls[i].qty >= min_quantity

\* an order sent at the venue's minimum because the position is 2.5 times
\* the ceiling or more
C30_Witness ==
    /\ pc = "sleep"
    /\ PenaltyNotPositive
    /\ calculate_dynamic_order_size(s) <= 0
    /\ \E i \in CallsOf("limit_order") : calls[i].qty = min_quantity

-----------------------------------------------------------------------------
(* C31: in every state the four dynamic parameters are those of the current  *)
(* regime: dynamic_gamma = gamma * gamma_mult, dynamic_Q_max = Q_max *       *)
(* Q_max_mult, dynamic_order_multiplier = size_mult and                      *)
(* dynamic_spread_multiplier = spread_mult of the regime's row of the table. *)
C31_DynamicsFollowRegime ==
    /\ 10 * dynamic_gamma = Gamma * TableOfRegime(market_regime)[1]
    /\ dynamic_Q_max = (Q_max * TableOfRegime(market_regime)[2]) \div 10
    /\ dynamic_order_multiplier = TableOfRegime(market_regime)[3]
    /\ dynamic_spread_multiplier = TableOfRegime(market_regime)[4]

-----------------------------------------------------------------------------
(* C32: once the re-derivation has run, 0 < risk_threshold < dynamic_Q_max   *)
(* in every regime; so where a hedge order was computed, both               *)
(* |real_q| - risk_threshold and dynamic_Q_max - risk_threshold, the         *)
(* numerator and the denominator of excess_ratio, are positive.              *)
C32_ThresholdBelowCeiling ==
    reinit_q_max =>
        /\ 0 < risk_threshold
        /\ risk_threshold < dynamic_Q_max
        /\ CallsOf("market_order") # {} =>
                /\ Abs(real_q) - risk_threshold > 0
                /\ dynamic_Q_max - risk_threshold > 0

\* a hedge order computed under stress, where the ceiling is lowest
C32_Witness ==
    /\ reinit_q_max
    /\ market_regime = "stress"
    /\ 10 * dynamic_Q_max = 8 * Q_max
    /\ CallsOf("market_order") # {}

-----------------------------------------------------------------------------
(* C33: where a hedge order was issued, 0.3 * |real_q| <= hedge_size <=      *)
(* |real_q|; the order sent is hedge_size floored to minQuantity, on the     *)
(* side that reduces the position, so filling it cannot turn the position    *)
(* to the other sign.                                                        *)
C33_HedgeNeverExceedsPosition ==
    \A i \in CallsOf("market_order") :
        /\ 10 * HedgeSize >= 3 * Abs(real_q)
        /\ HedgeSize <= Abs(real_q)
        /\ calls[i].qty <= Abs(real_q)
        /\ 10 * (calls[i].qty + min_quantity) > 3 * Abs(real_q)
        /\ calls[i].side = (IF real_q > 0 THEN "Ask" ELSE "Bid")

\* a position above the ceiling: the hedge order is for all of it
C33_Witness ==
    /\ pc = "quote"
    /\ Abs(real_q) > dynamic_Q_max
    /\ \E i \in CallsOf("market_order") :
          calls[i].qty = Abs(real_q) /\ calls[i].side = "Ask"

-----------------------------------------------------------------------------
(* C34: a hedge order is issued only in a tick whose sync read the position  *)
(* from the venue; with at most one hedge order in a tick, that is at most   *)
(* one hedge order for each position read: none in a tick whose sync was     *)
(* skipped by the interval or failed.                                        *)
C34_HedgeOnlyOnFreshPosition ==
    CallsOf("market_order") # {} =>
        \E i \in CallsOf("get_open_positions") : calls[i].ok

-----------------------------------------------------------------------------
\* the orders of a side that rest on the venue
RestingOf(side) == {id \in DOMAIN venue_orders : venue_orders[id] = side}

(* C35: after a permitted update at most one buy and at most one sell limit  *)
(* order rest on the venue, also when a cancel of that update failed or the  *)
(* query of the open orders returned nothing.                                *)
C35_OneRestingOrderPerSide ==
    (pc = "sleep" /\ UpdatedThisTick) =>
        /\ Cardinality(RestingOf("buy")) <= 1
        /\ Cardinality(RestingOf("sell")) <= 1

-----------------------------------------------------------------------------
(* C36: in a tick whose quote engine returned no price on either side the    *)
(* order manager is not called: no request goes to the venue, the orders     *)
(* resting there stay, and active_orders and last_order_update are as they   *)
(* were.                                                                     *)
C36_NoQuotesNoUpdate ==
    [][(pc = "submit" /\ bid_price = None /\ ask_price = None) =>
        /\ calls' = calls
        /\ UNCHANGED <<venue_orders, active_orders, last_order_update, next_id>>
      ]_vars

\* a step that ended without quotes, for a depth whose best price did not
\* parse, while two orders were resting and an update was due
C36_Witness ==
    /\ pc = "sleep"
    /\ bid_price = None /\ ask_price = None
    /\ order_book.has_bids /\ order_book.has_asks
    /\ Cardinality(DOMAIN venue_orders) = 2
    /\ now - last_order_update >= update_interval
    /\ calls = <<>>

-----------------------------------------------------------------------------
(* C37: a call of smart_order_update made less than update_interval after    *)
(* the last stamp returns False, sends nothing and does not stamp; any other *)
(* call returns True and stamps last_order_update with the time of the call, *)
(* also when every placement of it failed.                                   *)
C37_PermittedUpdateAlwaysStamps ==
    [][(pc = "submit" /\ (Truthy(bid_price) \/ Truthy(ask_price))) =>
        IF now - last_order_update < update_interval
        THEN /\ ret' = "False"
             /\ calls' = calls
             /\ UNCHANGED last_order_update
        ELSE /\ ret' = "True"
             /\ last_order_update' = now
             /\ calls' # calls
      ]_vars

\* an update in which every placement failed, stamped all the same
C37_Witness ==
    /\ pc = "sleep"
    /\ ret = "True"
    /\ last_order_update = now
    /\ CallsOf("limit_order") # {}
    /\ \A i \in CallsOf("limit_order") : ~calls[i].ok

====
